---- MODULE Spec2Model ----
(***************************************************************************)
(* A model of django-translated-fields (translated_fields/fields.py and    *)
(* translated_fields/admin.py).                                            *)
(*                                                                         *)
(* Python strings are sequences of one-character strings.  The value None  *)
(* of an optional language code is the empty sequence: the code only ever  *)
(* tests such a value with `or`, which treats None and "" alike, and the   *)
(* translation service reports either None or a non-empty code.            *)
(***************************************************************************)
EXTENDS Integers, Sequences, FiniteSets, TLC

VARIABLES
    nmName, nmCode, nmLang, nmOut,          \* to_attribute: inputs and the results of the calls made
    ctxVar, ctxStack, ctxObs, ctxRet,       \* the display toggle per execution context
    Field_creation_counter,                 \* Field.creation_counter, the global ordering counter
    body, phase, clsFields,                 \* a model class: its body, its construction, its fields
    tfName, tfLanguages, tfFields,          \* one attached TranslatedField ...
    obj, active, lastSet, lastGet           \* ... an instance, the active language, the last accesses

namerVars  == <<nmName, nmCode, nmLang, nmOut>>
toggleVars == <<ctxVar, ctxStack, ctxObs, ctxRet>>
classVars  == <<Field_creation_counter, body, phase, clsFields>>
accessVars == <<tfName, tfLanguages, tfFields, obj, active, lastSet, lastGet>>
vars == <<nmName, nmCode, nmLang, nmOut, ctxVar, ctxStack, ctxObs, ctxRet,
          Field_creation_counter, body, phase, clsFields,
          tfName, tfLanguages, tfFields, obj, active, lastSet, lastGet>>

-----------------------------------------------------------------------------
(* Strings *)

None == <<>>

Range(s) == {s[i] : i \in 1..Len(s)}

UpperAlpha == <<"A","B","C","D","E","F","G","H","I","J","K","L","M",
                "N","O","P","Q","R","S","T","U","V","W","X","Y","Z">>
LowerAlpha == <<"a","b","c","d","e","f","g","h","i","j","k","l","m",
                "n","o","p","q","r","s","t","u","v","w","x","y","z">>
Digits == {"0","1","2","3","4","5","6","7","8","9"}

\* [a-z0-9_]
AttrChars == Range(LowerAlpha) \cup Digits \cup {"_"}

\* str.lower() on one character
LowerChar(c) ==
    IF \E i \in 1..Len(UpperAlpha) : UpperAlpha[i] = c
    THEN LowerAlpha[CHOOSE i \in 1..Len(UpperAlpha) : UpperAlpha[i] = c]
    ELSE c

\* str.upper() on one character
UpperChar(c) ==
    IF \E i \in 1..Len(LowerAlpha) : LowerAlpha[i] = c
    THEN UpperAlpha[CHOOSE i \in 1..Len(LowerAlpha) : LowerAlpha[i] = c]
    ELSE c

Lower(s) == [i \in 1..Len(s) |-> LowerChar(s[i])]

\* str(x) of an optional string, as an f-string formats it
Str(x) == IF x = None THEN <<"N","o","n","e">> ELSE x

\* Python's `a or b` on optional strings
Or(a, b) == IF a # None THEN a ELSE b

RECURSIVE SkipRun(_)
\* the rest of s after the run of characters outside [a-z0-9_] it starts with
SkipRun(s) ==
    IF s = <<>> \/ Head(s) \in AttrChars THEN s ELSE SkipRun(Tail(s))

RECURSIVE ReSub(_)
\* re.sub(r"[^a-z0-9_]+", "_", s): scanning from the left, each match is the
\* longest run of characters outside the class, and becomes one "_"
ReSub(s) ==
    IF s = <<>> THEN <<>>
    ELSE IF Head(s) \in AttrChars THEN <<Head(s)>> \o ReSub(Tail(s))
    ELSE <<"_">> \o ReSub(SkipRun(Tail(s)))

\* a namer that does not lower-case
to_attribute_nolower(name, language_code, current) ==
    LET language == Or(language_code, current)
    IN  ReSub(name \o <<"_">> \o Str(language))

\* to_attribute(name, language_code) when get_language() returns `current`
to_attribute(name, language_code, current) ==
    LET language == Or(language_code, current)
    IN  ReSub(Lower(name \o <<"_">> \o Str(language)))

-----------------------------------------------------------------------------
(* The namer on its own: inputs drawn from bounded sets, then called twice *)

NamerNames == { <<"t","i","t","l","e">>, <<"T","i","t","l","e">>,
                <<"m","y"," ","t","i","t","l","e">>, <<"a","-","-","B","2">>,
                <<"_","x","_">>, <<"#","!">>, <<>> }

NamerCodes == { None, <<"e","n">>, <<"p","t","-","b","r">>, <<"p","t","_","B","R">>,
                <<"z","h","-","H","a","n","s">>, <<"s","r","@","l","a","t","n">>,
                <<"-","-">> }

NamerActive == { None, <<"d","e">>, <<"e","n","-","g","b">> }

MaxCalls == 2

InitNamer ==
    /\ nmName \in NamerNames
    /\ nmCode \in NamerCodes
    /\ nmLang \in NamerActive
    /\ nmOut = <<>>

CallToAttribute ==
    /\ Len(nmOut) < MaxCalls
    /\ nmOut' = Append(nmOut, to_attribute(nmName, nmCode, nmLang))
    /\ UNCHANGED <<nmName, nmCode, nmLang>>
    /\ UNCHANGED <<toggleVars, classVars, accessVars>>

-----------------------------------------------------------------------------
(* The display toggle: one ContextVar, one value per execution context *)

Contexts == {"ctx1", "ctx2"}

\* regions (with blocks and admin views) open at one time, over all contexts
MaxOpen == 2

Unset == "unset"

\* ContextVar.set(value): the new value and the token, which holds the old one
ContextVarSet(v, value) == [value |-> value, token |-> v]

\* ContextVar.reset(token)
ContextVarReset(token) == token

\* ContextVar.get(default)
ContextVarGet(v, default) == IF v = Unset THEN default ELSE v

\* entering `with show_language_code(show)`: the generator runs up to its yield
show_language_code_enter(v, show) == ContextVarSet(v, show)

\* a scope exit that never resets the toggle
show_language_code_exit_noreset(v, token, raised) == v

\* leaving it: on a normal exit the generator resumes after the yield and
\* resets; an exception of the body is thrown into the generator at the yield,
\* which has no try/finally, so the reset is not reached
show_language_code_exit(v, token, raised) ==
    IF raised THEN v ELSE ContextVarReset(token)

\* django.utils.text.capfirst
capfirst(s) == IF s = <<>> THEN s ELSE <<UpperChar(Head(s))>> \o Tail(s)

\* the lazy label, evaluated in a context whose toggle is v
verbose_name_fn(verbose_name, language_code, v) ==
    IF ContextVarGet(v, "False") = "True"
    THEN capfirst(verbose_name) \o <<" ", "[">> \o language_code \o <<"]">>
    ELSE verbose_name

LabelNames == { <<"t","i","t","l","e">> }
LabelCodes == { <<"d","e">> }

NoRet == [kind |-> "none", how |-> "none", pre |-> Unset,
          hasRender |-> FALSE, rendered |-> FALSE]
NoObs == [ctx |-> "none", where |-> "none", pre |-> Unset,
          name |-> <<>>, code |-> <<>>, label |-> <<>>]

Top(c) == ctxStack[c][Len(ctxStack[c])]
Pop(c) == SubSeq(ctxStack[c], 1, Len(ctxStack[c]) - 1)
InView(c) == ctxStack[c] # <<>> /\ Top(c).kind = "view"
InBody(c) == ctxStack[c] # <<>> /\ Top(c).kind = "with"

RECURSIVE Open(_)
Open(cs) ==
    IF cs = {} THEN 0
    ELSE LET c == CHOOSE x \in cs : TRUE IN Len(ctxStack[c]) + Open(cs \ {c})

InitToggle ==
    /\ ctxVar = [c \in Contexts |-> Unset]
    /\ ctxStack = [c \in Contexts |-> <<>>]
    /\ ctxObs = NoObs
    /\ ctxRet = [c \in Contexts |-> NoRet]

\* `with show_language_code(show):` is entered in context c
Enter(c, show) ==
    /\ Open(Contexts) < MaxOpen
    /\ ~InView(c)
    /\ LET r == show_language_code_enter(ctxVar[c], show)
       IN  /\ ctxVar' = [ctxVar EXCEPT ![c] = r.value]
           /\ ctxStack' = [ctxStack EXCEPT ![c] = Append(@,
                  [kind |-> "with", show |-> show, token |-> r.token,
                   pre |-> ctxVar[c], pc |-> "body", hasRender |-> FALSE])]
    /\ ctxRet' = [ctxRet EXCEPT ![c] = NoRet]
    /\ ctxObs' = NoObs
    /\ UNCHANGED <<namerVars, classVars, accessVars>>

\* the region's body ends normally in context c
ExitNormal(c) ==
    /\ InBody(c)
    /\ ctxVar' = [ctxVar EXCEPT ![c] = show_language_code_exit(@, Top(c).token, FALSE)]
    /\ ctxStack' = [ctxStack EXCEPT ![c] = Pop(c)]
    /\ ctxRet' = [ctxRet EXCEPT ![c] =
           [kind |-> "with", how |-> "normal", pre |-> Top(c).pre,
            hasRender |-> FALSE, rendered |-> FALSE]]
    /\ ctxObs' = NoObs
    /\ UNCHANGED <<namerVars, classVars, accessVars>>

\* the region's body raises in context c, and the exception leaves the region
ExitRaise(c) ==
    /\ InBody(c)
    /\ ctxVar' = [ctxVar EXCEPT ![c] = show_language_code_exit(@, Top(c).token, TRUE)]
    /\ ctxStack' = [ctxStack EXCEPT ![c] = Pop(c)]
    /\ ctxRet' = [ctxRet EXCEPT ![c] =
           [kind |-> "with", how |-> "raise", pre |-> Top(c).pre,
            hasRender |-> FALSE, rendered |-> FALSE]]
    /\ ctxObs' = NoObs
    /\ UNCHANGED <<namerVars, classVars, accessVars>>

Views == {"changelist_view", "changeform_view"}

\* TranslatedFieldAdmin.<view> is called in context c: the scope is entered
\* with the flag enabled and the base view starts
ViewCall(c, view) ==
    /\ Open(Contexts) < MaxOpen
    /\ ~InView(c)
    /\ LET r == show_language_code_enter(ctxVar[c], "True")
       IN  /\ ctxVar' = [ctxVar EXCEPT ![c] = r.value]
           /\ ctxStack' = [ctxStack EXCEPT ![c] = Append(@,
                  [kind |-> "view", show |-> "True", token |-> r.token,
                   pre |-> ctxVar[c], pc |-> "base", hasRender |-> FALSE])]
    /\ ctxRet' = [ctxRet EXCEPT ![c] = NoRet]
    /\ ctxObs' = NoObs
    /\ UNCHANGED <<namerVars, classVars, accessVars>>

\* the base view returns a response, which has a render method or has none
BaseReturn(c, hasRender) ==
    /\ InView(c) /\ Top(c).pc = "base"
    /\ ctxStack' = [ctxStack EXCEPT ![c][Len(ctxStack[c])] =
           [@ EXCEPT !.pc = "response", !.hasRender = hasRender]]
    /\ ctxObs' = NoObs
    /\ UNCHANGED <<namerVars, classVars, accessVars>>
    /\ UNCHANGED <<ctxVar, ctxRet>>

\* response.render() inside the scope
Render(c) ==
    /\ InView(c) /\ Top(c).pc = "response" /\ Top(c).hasRender
    /\ ctxStack' = [ctxStack EXCEPT ![c][Len(ctxStack[c])] = [@ EXCEPT !.pc = "rendered"]]
    /\ ctxObs' = NoObs
    /\ UNCHANGED <<namerVars, classVars, accessVars>>
    /\ UNCHANGED <<ctxVar, ctxRet>>

\* the base view or the render raises: the exception leaves the with block
ViewRaise(c) ==
    /\ InView(c)
    /\ Top(c).pc = "base" \/ (Top(c).pc = "response" /\ Top(c).hasRender)
    /\ ctxVar' = [ctxVar EXCEPT ![c] = show_language_code_exit(@, Top(c).token, TRUE)]
    /\ ctxStack' = [ctxStack EXCEPT ![c] = Pop(c)]
    /\ ctxRet' = [ctxRet EXCEPT ![c] =
           [kind |-> "view", how |-> "raise", pre |-> Top(c).pre,
            hasRender |-> Top(c).hasRender, rendered |-> FALSE]]
    /\ ctxObs' = NoObs
    /\ UNCHANGED <<namerVars, classVars, accessVars>>

\* `return response` leaves the with block
ViewReturn(c) ==
    /\ InView(c)
    /\ Top(c).pc = "rendered" \/ (Top(c).pc = "response" /\ ~Top(c).hasRender)
    /\ ctxVar' = [ctxVar EXCEPT ![c] = show_language_code_exit(@, Top(c).token, FALSE)]
    /\ ctxStack' = [ctxStack EXCEPT ![c] = Pop(c)]
    /\ ctxRet' = [ctxRet EXCEPT ![c] =
           [kind |-> "view", how |-> "normal", pre |-> Top(c).pre,
            hasRender |-> Top(c).hasRender, rendered |-> Top(c).pc = "rendered"]]
    /\ ctxObs' = NoObs
    /\ UNCHANGED <<namerVars, classVars, accessVars>>

\* where context c stands when it evaluates a label
Where(c) ==
    IF InView(c) THEN "view"
    ELSE IF ctxRet[c].kind = "view" /\ ctxRet[c].how = "normal" THEN "after"
    ELSE IF InBody(c) THEN "body"
    ELSE "outside"

\* a generated field's lazy verbose_name is evaluated in context c
LabelEval(c, name, code) ==
    /\ ctxObs' = [ctx |-> c, where |-> Where(c), pre |-> ctxRet[c].pre,
                  name |-> name, code |-> code,
                  label |-> verbose_name_fn(name, code, ctxVar[c])]
    /\ UNCHANGED <<ctxVar, ctxStack, ctxRet>>
    /\ UNCHANGED <<namerVars, classVars, accessVars>>

NextToggle ==
    \E c \in Contexts :
        \/ \E show \in {"True", "False"} : Enter(c, show)
        \/ ExitNormal(c)
        \/ ExitRaise(c)
        \/ \E view \in Views : ViewCall(c, view)
        \/ \E hasRender \in BOOLEAN : BaseReturn(c, hasRender)
        \/ Render(c)
        \/ ViewRaise(c)
        \/ ViewReturn(c)
        \/ \E name \in LabelNames, code \in LabelCodes : LabelEval(c, name, code)

-----------------------------------------------------------------------------
(* Properties of the display toggle *)

\* C1: leaving a `with show_language_code(show)` region, normally or by an
\* exception of its body, restores the toggle to its value before the entry;
\* so a context that has left all its regions has the toggle it started with.
C1_RestoredOnExit ==
    \A c \in Contexts :
        /\ ctxRet[c].kind = "with" => ctxVar[c] = ctxRet[c].pre
        /\ ctxStack[c] = <<>> => ctxVar[c] = Unset

\* C8: the toggle a context reads is the value set by its own innermost
\* enclosing region, and False (unset) when it is in no region, whatever the
\* other contexts do.
C8_OwnInnermostRegion ==
    \A c \in Contexts :
        ContextVarGet(ctxVar[c], "False") =
            IF ctxStack[c] = <<>> THEN "False" ELSE Top(c).show

\* the part of C8 that is about other contexts only: a step of one context
\* leaves the toggle of every other context alone
C8_Isolation ==
    [][\A c, d \in Contexts :
          (c # d /\ ctxStack'[c] # ctxStack[c]) => ctxVar'[d] = ctxVar[d]]_vars

-----------------------------------------------------------------------------
(* Construction of a model class that declares fields and TranslatedFields *)

EN    == <<"e","n">>
DE    == <<"d","e">>
FR    == <<"f","r">>
PT_BR == <<"p","t","-","b","r">>
PT_br == <<"p","t","_","B","R">>
BR    == <<"b","r">>

\* [lang[0] for lang in settings.LANGUAGES]
settings_LANGUAGES == <<EN, DE, FR>>

\* the values given for `languages`: None, or a list of language codes
LanguageLists == { None, <<BR>>, <<PT_BR, PT_br>> }

FieldNames == { <<"t","i","t","l","e">>, <<"b","o","d","y">>,
                <<"b","o","d","y","_","p","t">>, <<"T","a","g">> }

MaxBody == 3

Declared == {body[i].name : i \in 1..Len(body)}

\* Field.__init__ of the host framework, called for a hand-declared field, for
\* a prototype and for each generated field: the field takes the global
\* counter and the counter grows by one
Field_init(counter) == [creation_counter |-> counter, counter |-> counter + 1]

\* TranslatedField.__init__: the language list, and the block of the counter
TranslatedField_init(languages, counter) ==
    LET langs == Or(languages, settings_LANGUAGES)
    IN  [languages |-> langs,
         creation_counter |-> counter,
         counter |-> counter + Len(langs)]

\* a class attachment that gives every generated field the first counter value
contribute_to_class_samecounter(name, languages, creation_counter, decl) ==
    [index \in 1..Len(languages) |->
        [attname |-> to_attribute(name, languages[index], None),
         creation_counter |-> creation_counter,
         language_code |-> languages[index],
         decl |-> decl]]

\* a class attachment that names every generated field after the first language
contribute_to_class_firstlanguage(name, languages, creation_counter, decl) ==
    [index \in 1..Len(languages) |->
        [attname |-> to_attribute(name, languages[1], None),
         creation_counter |-> creation_counter + (index - 1),
         language_code |-> languages[index],
         decl |-> decl]]

\* TranslatedField.contribute_to_class: the storage fields it registers, in
\* order (enumerate counts from 0, sequences here from 1)
contribute_to_class(name, languages, creation_counter, decl) ==
    [index \in 1..Len(languages) |->
        [attname |-> to_attribute(name, languages[index], None),
         creation_counter |-> creation_counter + (index - 1),
         language_code |-> languages[index],
         decl |-> decl]]

\* self.fields
FieldsOf(generated) == [i \in 1..Len(generated) |-> generated[i].attname]

InitClass ==
    /\ Field_creation_counter = 0
    /\ body = <<>>
    /\ phase = "body"
    /\ clsFields = <<>>

\* the class body declares `name = Field()`
DeclareField(name) ==
    /\ phase = "body" /\ Len(body) < MaxBody /\ name \notin Declared
    /\ LET f == Field_init(Field_creation_counter)
       IN  /\ body' = Append(body,
                 [kind |-> "field", name |-> name, languages |-> <<>>,
                  creation_counter |-> f.creation_counter,
                  reserved |-> f.counter, fields |-> <<>>])
           /\ Field_creation_counter' = f.counter
    /\ UNCHANGED <<phase, clsFields>>
    /\ UNCHANGED <<namerVars, toggleVars, accessVars>>

\* the class body declares `name = TranslatedField(Field(), languages=...)`:
\* the prototype is constructed, then the TranslatedField
DeclareTranslated(name, languages) ==
    /\ phase = "body" /\ Len(body) < MaxBody /\ name \notin Declared
    /\ LET proto == Field_init(Field_creation_counter)
           tf == TranslatedField_init(languages, proto.counter)
       IN  /\ body' = Append(body,
                 [kind |-> "translated", name |-> name, languages |-> tf.languages,
                  creation_counter |-> tf.creation_counter,
                  reserved |-> tf.counter, fields |-> <<>>])
           /\ Field_creation_counter' = tf.counter
    /\ UNCHANGED <<phase, clsFields>>
    /\ UNCHANGED <<namerVars, toggleVars, accessVars>>

\* the class body ends: the metaclass starts attaching what was declared
EndBody ==
    /\ phase = "body" /\ body # <<>>
    /\ phase' = "attach"
    /\ UNCHANGED <<Field_creation_counter, body, clsFields>>
    /\ UNCHANGED <<namerVars, toggleVars, accessVars>>

\* the items of the body that are attached
Attached == {i \in 1..Len(body) : \E j \in 1..Len(clsFields) : clsFields[j].decl = i}
NextDecl == Cardinality(Attached) + 1

\* the next declared item is attached to the class, in declaration order
Contribute ==
    /\ phase = "attach"
    /\ LET i == NextDecl
           it == body[i]
           generated == contribute_to_class(it.name, it.languages, it.creation_counter, i)
       IN  IF it.kind = "field"
           THEN /\ clsFields' = Append(clsFields,
                      [attname |-> it.name, creation_counter |-> it.creation_counter,
                       language_code |-> None, decl |-> i])
                /\ UNCHANGED <<Field_creation_counter, body>>
           ELSE \* each generated field is constructed by Field.__init__, which
                \* moves the global counter, before its counter is overwritten
                /\ clsFields' = clsFields \o generated
                /\ Field_creation_counter' = Field_creation_counter + Len(generated)
                /\ body' = [body EXCEPT ![i].fields = FieldsOf(generated)]
    /\ phase' = IF NextDecl = Len(body) THEN "done" ELSE "attach"
    /\ UNCHANGED <<namerVars, toggleVars, accessVars>>

NextClass ==
    \/ \E name \in FieldNames : DeclareField(name)
    \/ \E name \in FieldNames, languages \in LanguageLists : DeclareTranslated(name, languages)
    \/ EndBody
    \/ Contribute

-----------------------------------------------------------------------------
(* Properties of the namer *)

RECURSIVE CollapseRuns(_)
\* s with every maximal run of characters outside [a-z0-9_] replaced by one
\* "_", read from the right: a character outside the class is dropped when the
\* one before it is outside the class too
CollapseRuns(s) ==
    IF s = <<>> THEN <<>>
    ELSE LET n == Len(s)
             front == SubSeq(s, 1, n - 1)
         IN  IF s[n] \in AttrChars THEN Append(CollapseRuns(front), s[n])
             ELSE IF n > 1 /\ s[n - 1] \notin AttrChars THEN CollapseRuns(front)
             ELSE Append(CollapseRuns(front), "_")

\* C7: to_attribute returns `{name}_{language}`, the language being the code
\* given or else the active language (None formatted as "None"), lower-cased
\* and with every maximal run of characters outside [a-z0-9_] replaced by one
\* underscore; the result has only characters of [a-z0-9_]; calls with the
\* same inputs return the same result.
C7_Namer ==
    LET language == IF nmCode # None THEN nmCode ELSE nmLang
        text == nmName \o <<"_">> \o (IF language = None THEN <<"N","o","n","e">> ELSE language)
    IN  \A i \in 1..Len(nmOut) :
            /\ nmOut[i] = CollapseRuns(Lower(text))
            /\ Range(nmOut[i]) \subseteq AttrChars
            /\ \A j \in 1..Len(nmOut) : nmOut[j] = nmOut[i]

\* the name "a--B2" and the code "zh-Hans" gave "a_b2_zh_hans", twice
C7_Witness ==
    /\ Len(nmOut) >= 2
    /\ nmName = <<"a","-","-","B","2">>
    /\ nmOut[1] = <<"a","_","b","2","_","z","h","_","h","a","n","s">>

-----------------------------------------------------------------------------
(* Properties of the class construction *)

\* the positions in clsFields of the fields generated for body item i, in order
GeneratedAt(i) == {j \in 1..Len(clsFields) : clsFields[j].decl = i}

\* field j stands before field k in declaration order: declared earlier, or
\* generated by the same TranslatedField for an earlier language
DeclaredBefore(j, k) ==
    \/ clsFields[j].decl < clsFields[k].decl
    \/ /\ clsFields[j].decl = clsFields[k].decl
       /\ \E a, b \in 1..Len(body[clsFields[j].decl].languages) :
             /\ a < b
             /\ clsFields[j].creation_counter = body[clsFields[j].decl].creation_counter + a - 1
             /\ clsFields[k].creation_counter = body[clsFields[k].decl].creation_counter + b - 1
             /\ clsFields[j].language_code = body[clsFields[j].decl].languages[a]
             /\ clsFields[k].language_code = body[clsFields[k].decl].languages[b]

C4_Generated ==
    \A i \in Attached :
        body[i].kind = "translated" =>
            LET n == Len(body[i].languages)
            IN  /\ Cardinality(GeneratedAt(i)) = n
                /\ Len(body[i].fields) = n
                /\ \A index \in 0..(n - 1) :
                      \E j \in GeneratedAt(i) :
                          /\ clsFields[j].creation_counter = body[i].creation_counter + index
                          /\ clsFields[j].language_code = body[i].languages[index + 1]
                          /\ \A k \in GeneratedAt(i) :
                                clsFields[k].creation_counter = clsFields[j].creation_counter
                                    => k = j

C4_Order ==
    \A j, k \in 1..Len(clsFields) :
        /\ j # k => clsFields[j].creation_counter # clsFields[k].creation_counter
        /\ clsFields[j].creation_counter < clsFields[k].creation_counter
              <=> (j # k /\ DeclaredBefore(j, k))

C4_Reserved ==
    \A i \in 1..Len(body) :
        body[i].kind = "translated" =>
            body[i].reserved - body[i].creation_counter = Len(body[i].languages)

\* C4: every attached TranslatedField with n languages has generated exactly n
\* storage fields with counters creation_counter+0 .. creation_counter+n-1 in
\* language order; the counters of all fields of the class are pairwise
\* distinct and their order is the declaration order; constructing a
\* TranslatedField moves the global counter by n, and it never decreases.
C4_OrderingCounters ==
    /\ [](C4_Generated /\ C4_Order /\ C4_Reserved)
    /\ [][Field_creation_counter' >= Field_creation_counter]_vars

\* a class with a hand-declared field before and after a TranslatedField of
\* more than one language is fully attached
C4_Witness ==
    /\ phase = "done"
    /\ \E i \in 2..(Len(body) - 1) :
          /\ body[i].kind = "translated" /\ Len(body[i].languages) > 1
          /\ body[i - 1].kind = "field" /\ body[i + 1].kind = "field"

\* C5 as stated: after attachment the storage attribute names are pairwise
\* distinct: no name is repeated in the `fields` of one TranslatedField, and no
\* name is generated by two TranslatedFields of the class.
C5_DistinctNames ==
    \A j, k \in 1..Len(clsFields) :
        (/\ j # k
         /\ body[clsFields[j].decl].kind = "translated"
         /\ body[clsFields[k].decl].kind = "translated")
            => clsFields[j].attname # clsFields[k].attname

\* a string as the namer normalises it
Normal(s) == CollapseRuns(Lower(s))

IsPrefix(s, t) == Len(s) <= Len(t) /\ SubSeq(t, 1, Len(s)) = s

\* two logical names that can share a storage name: equal once normalised, or
\* one is the other followed by "_" and more
NamesClash(m, n) ==
    \/ Normal(m) = Normal(n)
    \/ IsPrefix(Normal(m) \o <<"_">>, Normal(n))
    \/ IsPrefix(Normal(n) \o <<"_">>, Normal(m))

\* C5 amended: `fields` has one name per configured language; two names of one
\* TranslatedField differ when their language codes differ once normalised
\* (lower-cased, runs outside [a-z0-9_] collapsed); names of two
\* TranslatedFields differ when their logical names do not clash (they differ
\* once normalised and neither is the other followed by "_" and more).
C5_DistinctNamesWhenNormalDistinct ==
    /\ \A i \in Attached :
          body[i].kind = "translated" =>
              /\ Len(body[i].fields) = Len(body[i].languages)
              /\ \A a, b \in 1..Len(body[i].fields) :
                    Normal(body[i].languages[a]) # Normal(body[i].languages[b])
                        => body[i].fields[a] # body[i].fields[b]
    /\ \A i, j \in Attached :
          (/\ i # j
           /\ body[i].kind = "translated" /\ body[j].kind = "translated"
           /\ ~NamesClash(body[i].name, body[j].name))
              => Range(body[i].fields) \cap Range(body[j].fields) = {}

\* two TranslatedFields of several languages each are attached to one class
C5_Witness ==
    /\ phase = "done"
    /\ \E i, j \in Attached :
          /\ i # j
          /\ body[i].kind = "translated" /\ body[j].kind = "translated"
          /\ Len(body[i].fields) > 1 /\ Len(body[j].fields) > 1
          /\ ~NamesClash(body[i].name, body[j].name)
          /\ Cardinality(Range(body[i].fields) \cup Range(body[j].fields))
                = Len(body[i].fields) + Len(body[j].fields)

-----------------------------------------------------------------------------
(* Idle parts of the state *)

\* the parts of the state a specification does not use stay as they are here
Idle(group) ==
    CASE group = "namer"  -> nmName = <<>> /\ nmCode = <<>> /\ nmLang = <<>> /\ nmOut = <<>>
      [] group = "toggle" -> /\ ctxVar = [c \in Contexts |-> Unset]
                             /\ ctxStack = [c \in Contexts |-> <<>>]
                             /\ ctxObs = NoObs
                             /\ ctxRet = [c \in Contexts |-> NoRet]
      [] group = "class"  -> /\ Field_creation_counter = 0 /\ body = <<>>
                             /\ phase = "idle" /\ clsFields = <<>>
      [] group = "access" -> /\ tfName = <<>> /\ tfLanguages = <<>> /\ tfFields = <<>>
                             /\ obj = <<>> /\ active = None
                             /\ lastSet = <<>> /\ lastGet = <<>>


-----------------------------------------------------------------------------
(* Access to the logical attribute of an instance *)

AccessNames == { <<"t","i","t","l","e">>, <<"T","a","g">> }
AccessLanguageLists == { None, <<EN>>, <<EN, DE>>, <<PT_BR, PT_br>> }

\* what get_language() can return: None, or the code of the activated language
ActiveLanguages == { None, EN, DE, PT_BR }

Values == {"v1", "v2"}

NoSet == [done |-> FALSE, lang |-> None, value |-> "-", before |-> [a \in {} |-> "-"]]
NoGet == [kind |-> "none", lang |-> None, attr |-> <<>>, outcome |-> "none", value |-> "-"]

\* a getter that does not fall back when no language is active
translated_attrgetter_nofallback(name, languages, current) ==
    to_attribute(name, current, current)

\* a getter that falls back to the last configured language
translated_attrgetter_lastlanguage(name, languages, current) ==
    to_attribute(name, Or(current, languages[Len(languages)]), current)

\* translated_attrgetter: the attribute the getter reads
translated_attrgetter(name, languages, current) ==
    to_attribute(name, Or(current, languages[1]), current)

\* a setter that always writes the first configured language
translated_attrsetter_firstlanguage(name, languages, current) ==
    to_attribute(name, languages[1], current)

\* a setter with the getter's fallback
translated_attrsetter_fallback(name, languages, current) ==
    to_attribute(name, Or(current, languages[1]), current)

\* translated_attrsetter: the attribute the setter writes
translated_attrsetter(name, languages, current) ==
    to_attribute(name, None, current)

\* getattr(o, attr)
GetAttrOf(o, attr) ==
    IF attr \in DOMAIN o
    THEN [outcome |-> "value", value |-> o[attr]]
    ELSE [outcome |-> "AttributeError", value |-> "-"]

\* setattr(o, attr, value)
SetAttrOf(o, attr, value) ==
    [a \in DOMAIN o \cup {attr} |-> IF a = attr THEN value ELSE o[a]]

\* the instance's attributes of the configured languages
Restrict(o, attrs) == [a \in attrs \cap DOMAIN o |-> o[a]]

\* a TranslatedField is constructed and attached to its class, and an instance
\* of the class holds a value for every generated field
InitAccess ==
    /\ tfName \in AccessNames
    /\ \E languages \in AccessLanguageLists :
          LET tf == TranslatedField_init(languages, 0)
          IN  /\ tfLanguages = tf.languages
              /\ tfFields = FieldsOf(contribute_to_class(tfName, tf.languages,
                                                        tf.creation_counter, 1))
    /\ obj \in [Range(tfFields) -> Values]
    /\ active = None
    /\ lastSet = NoSet
    /\ lastGet = NoGet

\* translation.activate(language), or deactivate_all() for None
Activate(language) ==
    /\ active' = language
    /\ lastGet' = NoGet
    /\ UNCHANGED <<tfName, tfLanguages, tfFields, obj, lastSet>>
    /\ UNCHANGED <<namerVars, toggleVars, classVars>>

\* TranslatedField.__set__(obj, value): `instance.name = value`
TranslatedField_set(value) ==
    /\ LET attr == translated_attrsetter(tfName, tfLanguages, active)
       IN  /\ obj' = SetAttrOf(obj, attr, value)
           /\ lastSet' = [done |-> TRUE, lang |-> active, value |-> value,
                          before |-> Restrict(obj, Range(tfFields))]
    /\ lastGet' = NoGet
    /\ UNCHANGED <<tfName, tfLanguages, tfFields, active>>
    /\ UNCHANGED <<namerVars, toggleVars, classVars>>

\* TranslatedField.__get__(obj, objtype): `instance.name`, or `Class.name`
\* when onClass (obj is None)
TranslatedField_get(onClass) ==
    /\ IF onClass
       THEN lastGet' = [kind |-> "class", lang |-> active, attr |-> <<>>,
                        outcome |-> "descriptor", value |-> "-"]
       ELSE LET attr == translated_attrgetter(tfName, tfLanguages, active)
                r == GetAttrOf(obj, attr)
            IN  lastGet' = [kind |-> "instance", lang |-> active, attr |-> attr,
                            outcome |-> r.outcome, value |-> r.value]
    /\ UNCHANGED <<tfName, tfLanguages, tfFields, obj, active, lastSet>>
    /\ UNCHANGED <<namerVars, toggleVars, classVars>>

NextAccess ==
    \/ \E language \in ActiveLanguages : Activate(language)
    \/ \E value \in Values : TranslatedField_set(value)
    \/ \E onClass \in BOOLEAN : TranslatedField_get(onClass)


-----------------------------------------------------------------------------
(* Specifications *)

InitNamerOnly == InitNamer /\ Idle("toggle") /\ Idle("class") /\ Idle("access")
InitToggleOnly == InitToggle /\ Idle("namer") /\ Idle("class") /\ Idle("access")
InitClassOnly == InitClass /\ Idle("namer") /\ Idle("toggle") /\ Idle("access")
InitAccessOnly == InitAccess /\ Idle("namer") /\ Idle("toggle") /\ Idle("class")

SpecNamer == InitNamerOnly /\ [][CallToAttribute]_vars
SpecToggle == InitToggleOnly /\ [][NextToggle]_vars
SpecClass == InitClassOnly /\ [][NextClass]_vars
SpecAccess == InitAccessOnly /\ [][NextAccess]_vars

-----------------------------------------------------------------------------
(* Properties of the access to the logical attribute *)

\* C2: an assignment made while a configured language l is active sets the
\* storage attribute to_attribute(name, l) to the value and leaves every other
\* storage attribute of the field as it was.
C2_SetWritesActiveLanguageOnly ==
    (lastSet.done /\ lastSet.lang \in Range(tfLanguages)) =>
        LET written == to_attribute(tfName, lastSet.lang, None)
        IN  /\ written \in Range(tfFields)
            /\ obj[written] = lastSet.value
            /\ \A a \in Range(tfFields) \ {written} : obj[a] = lastSet.before[a]

\* a language other than the first is active and the assignment changed its
\* storage attribute, the field having other storage attributes
C2_Witness ==
    /\ lastSet.done
    /\ lastSet.lang \in Range(tfLanguages) /\ lastSet.lang # tfLanguages[1]
    /\ Cardinality(Range(tfFields)) > 1
    /\ lastSet.before[to_attribute(tfName, lastSet.lang, None)] # lastSet.value

\* C3: a read on an instance resolves to the storage attribute of the first
\* configured language when no language is active and to that of the active
\* language otherwise, and returns the value the instance holds there; a read
\* on the class returns the descriptor.
C3_ReadResolves ==
    /\ lastGet.kind = "instance" =>
          LET language == IF lastGet.lang = None THEN tfLanguages[1] ELSE lastGet.lang
              attr == to_attribute(tfName, language, None)
          IN  /\ lastGet.attr = attr
              /\ attr \in DOMAIN obj =>
                    (lastGet.outcome = "value" /\ lastGet.value = obj[attr])
    /\ lastGet.kind = "class" => lastGet.outcome = "descriptor"

\* with no active language, the read returned the first language's value,
\* which differs from the last language's
C3_Witness ==
    /\ lastGet.kind = "instance" /\ lastGet.lang = None /\ lastGet.outcome = "value"
    /\ Len(tfLanguages) > 1
    /\ lastGet.value = obj[tfFields[1]]
    /\ obj[tfFields[1]] # obj[tfFields[Len(tfFields)]]

\* C6 as stated: whatever the active language, a read resolves to one of the
\* storage attributes generated for the field.
C6_ReadResolvesToStorage ==
    lastGet.kind = "instance" => lastGet.attr \in Range(tfFields)

\* C6 amended: when no language is active, or the active language is one of
\* the configured languages, a read resolves to one of the storage attributes
\* generated for the field, and returns its value.
C6_ReadResolvesToStorageWhenConfigured ==
    (/\ lastGet.kind = "instance"
     /\ lastGet.lang = None \/ lastGet.lang \in Range(tfLanguages))
        => /\ lastGet.attr \in Range(tfFields)
           /\ lastGet.outcome = "value"

\* a read was made with no active language and resolved to the first storage attribute
C6_Witness ==
    /\ lastGet.kind = "instance" /\ lastGet.outcome = "value"
    /\ lastGet.lang = None
    /\ lastGet.attr = tfFields[1]

\* C10: with no active language an assignment leaves every storage attribute
\* of the field as it was and puts the value in the attribute `{name}_none`,
\* and a read that follows, still with no active language, returns the first
\* language's previous value; with a configured language active, a read that
\* follows an assignment under the same language returns the assigned value.
C10_SetterHasNoFallback ==
    /\ (lastSet.done /\ lastSet.lang = None) =>
          /\ \A a \in Range(tfFields) : obj[a] = lastSet.before[a]
          /\ Lower(tfName) \o <<"_","n","o","n","e">> \in DOMAIN obj
          /\ obj[Lower(tfName) \o <<"_","n","o","n","e">>] = lastSet.value
    /\ (lastSet.done /\ lastSet.lang = None
          /\ lastGet.kind = "instance" /\ lastGet.lang = None) =>
          /\ lastGet.outcome = "value"
          /\ lastGet.value = lastSet.before[tfFields[1]]
    /\ (lastSet.done /\ lastSet.lang \in Range(tfLanguages)
          /\ lastGet.kind = "instance" /\ lastGet.lang = lastSet.lang) =>
          /\ lastGet.outcome = "value"
          /\ lastGet.value = lastSet.value

\* a value was assigned with no active language and the read that followed
\* returned another value
C10_Witness ==
    /\ lastSet.done /\ lastSet.lang = None
    /\ lastGet.kind = "instance" /\ lastGet.lang = None
    /\ lastGet.value # lastSet.value

====
